---- MODULE Spec2Model ----
(***************************************************************************)
(* Model of src/image.ts: the DockerBuildCommandOptionBuilder (a fluent    *)
(* accumulator of `docker build` flags), its static allow-list filter and  *)
(* the Image construct, which builds and pushes an image while it is       *)
(* constructed and exposes `<tag>@<digest>` as its url.                    *)
(*                                                                         *)
(* Three specifications share the module: SpecBuilder (setters and         *)
(* build()), SpecFilter (removeUnknownOptions) and SpecImage (the Image    *)
(* constructor).  The variables of the other parts keep their initial      *)
(* value in each of them.                                                  *)
(***************************************************************************)
EXTENDS Integers, Sequences, FiniteSets, TLC

VARIABLES
    \* ---- DockerBuildCommandOptionBuilder ----
    cmdOpts,      \* this.cmdOpts: the object's own properties in insertion order, <<[k, v], ...>>
    opts,         \* the array returned by build()
    bpc,          \* "open" while setters are chained, "built" once build() returned
    ncalls,       \* history: number of setter calls made so far
    reg,          \* history: flag |-> [v: value of the first setter call naming it,
                  \*          other: a later call naming it gave another value]
    order,        \* history: the flags named so far, in the order of their first setter call
    \* ---- DockerBuildCommandOptionBuilder.removeUnknownOptions ----
    fIn,          \* the caller's array `opts`
    fArg,         \* history: the content of the caller's array when the call was made
    fOut,         \* the returned array
    fpc,          \* "call" before removeUnknownOptions runs, "returned" after
    \* ---- Image ----
    props,        \* the ImageProps and the construct path given to the constructor
    ipc,          \* position in the constructor: "start", "built", "pushed", "done", "failed"
    shellCalls,   \* the argument vectors shell() was called with, in call order
    results,      \* history: for each of those calls, TRUE if it returned, FALSE if it threw
    push,         \* the text captured from `docker push`
    url,          \* this.url (<<>> while unassigned)
    error         \* the error the constructor threw, [at, msg]

vars == <<cmdOpts, opts, bpc, ncalls, reg, order, fIn, fArg, fOut, fpc,
          props, ipc, shellCalls, results, push, url, error>>

builderVars == <<cmdOpts, opts, bpc, ncalls, reg, order>>
filterVars  == <<fIn, fArg, fOut, fpc>>
imageVars   == <<props, ipc, shellCalls, results, push, url, error>>

(***************************************************************************)
(* Bounds                                                                  *)
(***************************************************************************)
MaxCalls    == 3   \* setter calls made on one builder
MaxDistinct == 2   \* distinct flags named by those calls
MaxLen      == 3   \* length of the array given to removeUnknownOptions
MaxSegs     == 4   \* text segments making up the captured push output

(***************************************************************************)
(* Helpers on sequences                                                    *)
(***************************************************************************)
Range(s) == {s[i] : i \in 1..Len(s)}

Min(S) == CHOOSE x \in S : \A y \in S : x <= y

RECURSIVE Flatten(_)
Flatten(ss) == IF ss = <<>> THEN <<>> ELSE Head(ss) \o Flatten(Tail(ss))

(***************************************************************************)
(* The allow-list                                                          *)
(***************************************************************************)
dockerBuildallowedOptions ==
    << "--add-host", "--build-arg", "--cache-from", "--cgroup-parent",
       "--compress", "--cpu-period", "--cpu-quota", "--cpu-shares",
       "--cpuset-cpus", "--cpuset-mems", "--disable-content-trust", "--file",
       "--force-rm", "--iidfile", "--isolation", "--label", "--memory",
       "--memory-swap", "--network", "--no-cache", "--output", "--platform",
       "--progress", "--pull", "--quiet", "--rm", "--secret",
       "--security-opt", "--shm-size", "--squash", "--ssh", "--stream",
       "--tag", "--target", "--ulimit" >>

\* Array.prototype.includes on the allow-list
Allowed(opt) == \E i \in 1..Len(dockerBuildallowedOptions) : dockerBuildallowedOptions[i] = opt

(***************************************************************************)
(* JavaScript values stored in cmdOpts.  One record shape for all of them, *)
(* t being what `Array.isArray` / `typeof` see.                            *)
(***************************************************************************)
Undef   == [t |-> "undefined", s |-> "", n |-> 0, a |-> <<>>]
StrV(x) == [t |-> "string",    s |-> x,  n |-> 0, a |-> <<>>]
NumV(x) == [t |-> "number",    s |-> "", n |-> x, a |-> <<>>]
ArrV(x) == [t |-> "array",     s |-> "", n |-> 0, a |-> x]

\* Arguments the setters are called with.  No value is spelled like a flag.
StrVals  == {"a", "b"}
NumVals  == {1, 2}
ListVals == {<<>>, <<"b", "a">>}
ProgressVals == {"auto", "plain", "tty"}
OutputVals == { <<>>, <<[type |-> "tar", dest |-> "img.tar"], [type |-> "local", dest |-> "out"]>> }

\* `type=${type},dest=${dest}`
OutputToString(o) ==
    CASE o.type = "local" /\ o.dest = "out"     -> "type=local,dest=out"
      [] o.type = "tar"   /\ o.dest = "img.tar" -> "type=tar,dest=img.tar"

\* outputs.map(...)
MapOutputs(outputs) == [i \in 1..Len(outputs) |-> OutputToString(outputs[i])]

(***************************************************************************)
(* cmdOpts as an ordered mapping                                           *)
(***************************************************************************)
\* Object.keys(this.cmdOpts): own keys in insertion order (no key is an integer index)
Keys(m) == [i \in 1..Len(m) |-> m[i].k]

\* Last-write-wins registration: the assignment is made unconditionally.
addOptsOverwrite(m, opt, value) ==
    IF opt \in Range(Keys(m))
    THEN [i \in 1..Len(m) |-> IF m[i].k = opt THEN [k |-> opt, v |-> value] ELSE m[i]]
    ELSE Append(m, [k |-> opt, v |-> value])

\* addOpts: assigning a new property (even the value undefined) appends a key
addOpts(m, opt, value) ==
    IF opt \notin Range(Keys(m))
    THEN Append(m, [k |-> opt, v |-> value])
    ELSE m

\* A list-valued flag serialised as the flag once, followed by all the elements.
EmitFlagOnce(k, v) ==
    IF v.t = "array"
    THEN IF v.a = <<>> THEN <<>> ELSE <<k>> \o v.a
    ELSE IF v.t = "string"
         THEN <<k, v.s>>
         ELSE <<k>>

\* The body of build()'s outer loop for one property
Emit(k, v) ==
    IF v.t = "array"
    THEN Flatten([i \in 1..Len(v.a) |-> <<k, v.a[i]>>])
    ELSE IF v.t = "string"
         THEN <<k, v.s>>
         ELSE <<k>>

\* Enumeration of the properties from the most recent one to the oldest.
buildReversed(m) ==
    Flatten([i \in 1..Len(m) |-> Emit(m[Len(m) + 1 - i].k, m[Len(m) + 1 - i].v)])

\* build(): for (const k in this.cmdOpts) ...
build(m) == Flatten([i \in 1..Len(m) |-> Emit(m[i].k, m[i].v)])

(***************************************************************************)
(* Builder: initial state, setters, build()                                *)
(***************************************************************************)
FilterIdle == fIn = <<>> /\ fArg = <<>> /\ fOut = <<>> /\ fpc = "idle"
NoError    == [at |-> "none", msg |-> <<>>]
ImageIdle  == /\ props = [dir |-> <<>>, registry |-> <<>>, hasRegistry |-> FALSE,
                          cmdOpts |-> <<>>, hasCmdOpts |-> FALSE, path |-> <<>>]
              /\ ipc = "idle" /\ shellCalls = <<>> /\ results = <<>> /\ push = <<>> /\ url = <<>>
              /\ error = NoError
BuilderIdle == cmdOpts = <<>> /\ opts = <<>> /\ bpc = "idle" /\ ncalls = 0 /\ reg = <<>> /\ order = <<>>

\* constructor(): this.cmdOpts = {}
InitBuilder ==
    /\ cmdOpts = <<>>
    /\ opts = <<>>
    /\ bpc = "open"
    /\ ncalls = 0
    /\ reg = <<>>
    /\ order = <<>>
    /\ FilterIdle
    /\ ImageIdle

\* One setter call: this.addOpts(opt, value); return this
Setter(opt, value) ==
    /\ bpc = "open"
    /\ ncalls < MaxCalls
    /\ opt \in DOMAIN reg \/ Cardinality(DOMAIN reg) < MaxDistinct
    /\ cmdOpts' = addOpts(cmdOpts, opt, value)
    /\ ncalls' = ncalls + 1
    /\ reg' = IF opt \in DOMAIN reg
              THEN [reg EXCEPT ![opt].other = @ \/ value # reg[opt].v]
              ELSE reg @@ (opt :> [v |-> value, other |-> FALSE])
    /\ order' = IF opt \in DOMAIN reg THEN order ELSE Append(order, opt)
    /\ UNCHANGED <<opts, bpc, filterVars, imageVars>>

addHosts            == \E hosts \in ListVals : Setter("--add-host", ArrV(hosts))
buildArgs           == \E args \in ListVals : Setter("--build-arg", ArrV(args))
cacheFrom           == \E caches \in ListVals : Setter("--cache-from", ArrV(caches))
cgroupParent        == \E cgroup \in StrVals : Setter("--cgroup-parent", StrV(cgroup))
compress            == Setter("--compress", Undef)
cpuPeriod           == \E period \in NumVals : Setter("--cpu-period", NumV(period))
cpuQuota            == \E quota \in NumVals : Setter("--cpu-quota", NumV(quota))
cpushares           == \E cpuShares \in NumVals : Setter("--cpu-shares", NumV(cpuShares))
cpusetCpus          == \E cpus \in StrVals : Setter("--cpuset-cpus", StrV(cpus))
cpusetMems          == \E mems \in StrVals : Setter("--cpuset-mems", StrV(mems))
disableContentTrust == Setter("--disable-content-trust", Undef)
dockerFile          == \E file \in StrVals : Setter("--file", StrV(file))
forceRm             == Setter("--force-rm", Undef)
iidFile             == \E file \in StrVals : Setter("--iidfile", StrV(file))
isolation           == \E iso \in StrVals : Setter("isolation", StrV(iso))
labels              == \E ls \in ListVals : Setter("--label", ArrV(ls))
memory              == \E bytes \in NumVals : Setter("--memory", NumV(bytes))
memorySwap          == \E bytes \in NumVals : Setter("--memory-swap", NumV(bytes))
network             == \E net \in StrVals : Setter("--network", StrV(net))
noCache             == Setter("--no-cache", Undef)
output              == \E outputs \in OutputVals : Setter("--output", ArrV(MapOutputs(outputs)))
platform            == \E plat \in StrVals : Setter("--platform", StrV(plat))
progress            == \E type \in ProgressVals : Setter("--progress", StrV(type))
pull                == Setter("--pull", Undef)
quiet               == Setter("--quiet", Undef)
rm                  == Setter("--rm", Undef)
secret              == \E secrets \in ListVals : Setter("--secret", ArrV(secrets))
securityOpt         == \E sopts \in ListVals : Setter("--security-opt", ArrV(sopts))
shmSize             == \E bytes \in NumVals : Setter("--shm-size", NumV(bytes))
squash              == Setter("--squash", Undef)
ssh                 == \E keysOrAgents \in ListVals : Setter("--ssh", ArrV(keysOrAgents))
stream              == Setter("--stream", Undef)
tag                 == \E tags \in ListVals : Setter("--tag", ArrV(tags))
target              == \E tgt \in StrVals : Setter("--target", StrV(tgt))
ulimit              == \E ul \in ListVals : Setter("--ulimit", ArrV(ul))

\* build(): the terminal call of the fluent chain; it leaves this.cmdOpts alone
Build ==
    /\ bpc = "open"
    /\ opts' = build(cmdOpts)
    /\ bpc' = "built"
    /\ UNCHANGED <<cmdOpts, ncalls, reg, order, filterVars, imageVars>>

NextBuilder ==
    \/ addHosts \/ buildArgs \/ cacheFrom \/ cgroupParent \/ compress
    \/ cpuPeriod \/ cpuQuota \/ cpushares \/ cpusetCpus \/ cpusetMems
    \/ disableContentTrust \/ dockerFile \/ forceRm \/ iidFile \/ isolation
    \/ labels \/ memory \/ memorySwap \/ network \/ noCache \/ output
    \/ platform \/ progress \/ pull \/ quiet \/ rm \/ secret \/ securityOpt
    \/ shmSize \/ squash \/ ssh \/ stream \/ tag \/ target \/ ulimit
    \/ Build

SpecBuilder == InitBuilder /\ [][NextBuilder]_vars

(***************************************************************************)
(* Properties of the builder                                               *)
(***************************************************************************)
\* The positions of the token list at which flag k stands
FlagPos(k) == {i \in 1..Len(opts) : opts[i] = k}

\* The strings a stored value holds
ValueTokens(v) == IF v.t = "string" THEN {v.s} ELSE IF v.t = "array" THEN Range(v.a) ELSE {}

\* String(n) for the numbers the setters are given
NumberToString(n) == CASE n = 1 -> "1" [] n = 2 -> "2"

\* The positions holding a token contributed by flag k: the flag itself and
\* the value that follows it.
Block(k) ==
    FlagPos(k) \cup {i + 1 : i \in {j \in FlagPos(k) : j < Len(opts) /\ opts[j + 1] \notin DOMAIN reg}}

\* C5, on the mapping: no flag is stored twice, the stored flags are the ones
\* named so far, and each holds the value of the first call that named it.
C5_Mapping ==
    /\ \A i, j \in 1..Len(cmdOpts) : cmdOpts[i].k = cmdOpts[j].k => i = j
    /\ Range(Keys(cmdOpts)) = DOMAIN reg
    /\ \A i \in 1..Len(cmdOpts) : cmdOpts[i].v = reg[cmdOpts[i].k].v

\* C5, on build(): every token is a registered flag or comes from the value
\* of the first call naming a flag, and a first string value follows its flag.
C5_Built ==
    bpc = "built" =>
        /\ Range(opts) \subseteq DOMAIN reg \cup UNION {ValueTokens(reg[k].v) : k \in DOMAIN reg}
        /\ \A k \in DOMAIN reg :
               /\ Cardinality(FlagPos(k)) <= IF reg[k].v.t = "array" THEN Len(reg[k].v.a) ELSE 1
               /\ reg[k].v.t = "string" =>
                      \E i \in FlagPos(k) : i < Len(opts) /\ opts[i + 1] = reg[k].v.s

\* C5, on one step: a setter call naming an already registered flag leaves
\* the whole mapping as it was.
C5_LaterCallIgnored ==
    (ncalls' = ncalls + 1 /\ DOMAIN reg' = DOMAIN reg) => cmdOpts' = cmdOpts

\* C5: after any sequence of setter calls each flag is stored at most once
\* with the value of the first call that registered it; every later call for
\* a registered flag leaves the mapping unchanged, and build() emits only the
\* first value.
C5_FirstRegistrationWins ==
    [](C5_Mapping /\ C5_Built) /\ [][C5_LaterCallIgnored]_vars

\* A flag was named again with another value, and build() has returned.
C5_Witness ==
    /\ bpc = "built"
    /\ \E k \in DOMAIN reg : reg[k].other

\* C6: for distinct allow-listed flags registered with a scalar value (one
\* string or one number), build() returns each flag followed immediately by
\* its value, and no flag twice.
C6_ScalarFlagFollowedByValue ==
    bpc = "built" =>
        \A i \in 1..Len(cmdOpts) :
            LET k == cmdOpts[i].k
                v == cmdOpts[i].v
            IN  (Allowed(k) /\ v.t \in {"string", "number"}) =>
                    /\ Cardinality(FlagPos(k)) = 1
                    /\ \A p \in FlagPos(k) :
                           /\ p < Len(opts)
                           /\ opts[p + 1] = IF v.t = "string" THEN v.s ELSE NumberToString(v.n)

\* C7: a flag registered without a value contributes the flag alone; a flag
\* registered with a list of n elements contributes 2n consecutive tokens,
\* the flag before each element, in the order of the list.
C7_BooleanAndListFlags ==
    bpc = "built" =>
        \A i \in 1..Len(cmdOpts) :
            LET k == cmdOpts[i].k
                v == cmdOpts[i].v
                P == FlagPos(k)
            IN  /\ v.t = "undefined" =>
                       /\ Cardinality(P) = 1
                       /\ \A p \in P : p = Len(opts) \/ opts[p + 1] \in DOMAIN reg
                /\ v.t = "array" =>
                       /\ Cardinality(P) = Len(v.a)
                       /\ Cardinality(Block(k)) = 2 * Len(v.a)
                       /\ P # {} =>
                              \A j \in 1..Len(v.a) :
                                  /\ opts[Min(P) + 2 * (j - 1)] = k
                                  /\ opts[Min(P) + 2 * (j - 1) + 1] = v.a[j]

\* build() returned a list holding a valueless flag, and a list-valued flag
\* with two elements or with none.
C7_Witness ==
    /\ bpc = "built"
    /\ \E i, j \in 1..Len(cmdOpts) :
           /\ cmdOpts[i].v.t = "undefined"
           /\ cmdOpts[j].v.t = "array"
           /\ Len(cmdOpts[j].v.a) \in {0, 2}
    /\ Len(opts) \in {1, 5}

\* C9: every key of the option mapping, and every flag token build() emits,
\* is on the allow-list.
C9_KeysAllowed ==
    /\ \A i \in 1..Len(cmdOpts) : Allowed(cmdOpts[i].k)
    /\ bpc = "built" =>
           \A p \in 1..Len(opts) : opts[p] \in DOMAIN reg => Allowed(opts[p])

\* C10: the tokens of a flag whose first setter call came earlier all stand
\* before the tokens of a flag whose first setter call came later.
C10_FirstRegistrationOrder ==
    bpc = "built" =>
        \A x, y \in 1..Len(order) :
            x < y => \A i \in Block(order[x]) : \A j \in Block(order[y]) : i < j

\* Two flags contribute tokens, and one of them was named again after both
\* were registered.
C10_Witness ==
    /\ bpc = "built"
    /\ ncalls = 3
    /\ Len(order) = 2
    /\ Cardinality(Block(order[1])) >= 2 /\ Cardinality(Block(order[2])) >= 2

(***************************************************************************)
(* removeUnknownOptions                                                    *)
(***************************************************************************)
\* Tokens the caller's array is made of: flags of the allow-list and tokens
\* that are not on it verbatim.
FilterTokens == {"--pull", "--tag", "--isolation", "isolation", "--Tag", "-t"}

RECURSIVE SeqsUpTo(_, _)
SeqsUpTo(S, n) ==
    IF n = 0 THEN {<<>>}
    ELSE SeqsUpTo(S, n - 1) \cup {Append(q, x) : q \in {r \in SeqsUpTo(S, n - 1) : Len(r) = n - 1}, x \in S}

\* The n-th smallest element of a set of integers
Nth(K, n) == CHOOSE i \in K : Cardinality({m \in K : m <= i}) = n

\* A filter that also drops the repetitions of a token it keeps.
removeUnknownOptionsUnique(o) ==
    LET K == {i \in 1..Len(o) : Allowed(o[i]) /\ \A j \in 1..(i - 1) : o[j] # o[i]}
    IN  [n \in 1..Cardinality(K) |-> o[Nth(K, n)]]

\* opts.filter((opt) => dockerBuildallowedOptions.includes(opt))
removeUnknownOptions(o) == SelectSeq(o, Allowed)

InitFilter ==
    /\ fIn \in SeqsUpTo(FilterTokens, MaxLen)
    /\ fArg = fIn
    /\ fOut = <<>>
    /\ fpc = "call"
    /\ BuilderIdle
    /\ ImageIdle

\* DockerBuildCommandOptionBuilder.removeUnknownOptions(opts)
RemoveUnknownOptions ==
    /\ fpc = "call"
    /\ fOut' = removeUnknownOptions(fIn)
    /\ fpc' = "returned"
    /\ UNCHANGED <<fIn, fArg, builderVars, imageVars>>

NextFilter == RemoveUnknownOptions

SpecFilter == InitFilter /\ [][NextFilter]_vars

\* C8: removeUnknownOptions returns the tokens of its argument that are on
\* the allow-list verbatim, each as often as it occurs and in the argument's
\* order, and leaves the argument as it was.
C8_FilterKeepsAllowedInOrder ==
    fpc = "returned" =>
        LET K == {i \in 1..Len(fArg) : fArg[i] \in Range(dockerBuildallowedOptions)}
        IN  /\ Len(fOut) = Cardinality(K)
            /\ \A n \in 1..Len(fOut) : fOut[n] = fArg[Nth(K, n)]
            /\ fIn = fArg

\* The call dropped an unknown token standing between two occurrences of one
\* allow-listed flag.
C8_Witness ==
    /\ fpc = "returned"
    /\ Len(fArg) = 3
    /\ fArg[2] \notin Range(dockerBuildallowedOptions)
    /\ fOut = <<fArg[1], fArg[3]>>
    /\ fArg[1] = fArg[3]

(***************************************************************************)
(* Image.  A text is a sequence of pieces: single characters where the     *)
(* code looks inside the text (the captured push output), longer literals  *)
(* elsewhere.  String concatenation is \o.                                 *)
(***************************************************************************)
\* The literal part of PARSE_DIGEST: "digest: " and the start of the group, "sha256:"
DigestLiteral == <<"d", "i", "g", "e", "s", "t", ":", " ">>
Sha256Literal == <<"s", "h", "a", "2", "5", "6", ":">>

\* A character class that also takes the upper-case digits (the flag /i).
HexClassIgnoreCase ==
    {"0", "1", "2", "3", "4", "5", "6", "7", "8", "9", "a", "b", "c", "d", "e", "f",
     "A", "B", "C", "D", "E", "F"}

\* The character class [0-9a-f]
HexClass == {"0", "1", "2", "3", "4", "5", "6", "7", "8", "9", "a", "b", "c", "d", "e", "f"}

\* PARSE_DIGEST matches at position i of s: the literal, then at least one [0-9a-f]
MatchesAt(s, i) ==
    /\ i + Len(DigestLiteral) + Len(Sha256Literal) <= Len(s)
    /\ SubSeq(s, i, i + Len(DigestLiteral) + Len(Sha256Literal) - 1) = DigestLiteral \o Sha256Literal
    /\ s[i + Len(DigestLiteral) + Len(Sha256Literal)] \in HexClass

\* The end of the greedy [0-9a-f]+ that starts at position j
HexEnd(s, j) ==
    CHOOSE e \in j..Len(s) :
        /\ \A x \in j..e : s[x] \in HexClass
        /\ e = Len(s) \/ s[e + 1] \notin HexClass

NoMatch == [index |-> 0, group1 |-> <<>>]

\* A search that returns the rightmost match.
execLast(s) ==
    LET M == {i \in 1..Len(s) : MatchesAt(s, i)}
    IN  IF M = {} THEN NoMatch
        ELSE LET i == CHOOSE x \in M : \A y \in M : y <= x
             IN  [index |-> i,
                  group1 |-> SubSeq(s, i + Len(DigestLiteral),
                                    HexEnd(s, i + Len(DigestLiteral) + Len(Sha256Literal)))]

\* PARSE_DIGEST.exec(s): the leftmost match and its capture group, or null
exec(s) ==
    LET M == {i \in 1..Len(s) : MatchesAt(s, i)}
    IN  IF M = {} THEN NoMatch
        ELSE LET i == Min(M)
             IN  [index |-> i,
                  group1 |-> SubSeq(s, i + Len(DigestLiteral),
                                    HexEnd(s, i + Len(DigestLiteral) + Len(Sha256Literal)))]

\* Names.toDnsLabel of the cdk8s library, for a path given by its components:
\* the components joined by "-" and followed by a hash of the path (the
\* library's hash is represented by a fixed piece per path).
PathHash(path) == IF path = <<"test", "my-image">> THEN "ae2c8598" ELSE "c80f2a61"

RECURSIVE JoinDash(_)
JoinDash(path) ==
    IF Len(path) = 1 THEN <<path[1]>> ELSE <<path[1], "-">> \o JoinDash(Tail(path))

toDnsLabel(path) == JoinDash(path) \o <<"-", PathHash(path)>>

\* Segments the captured output of `docker push` is made of
Segments == { DigestLiteral \o Sha256Literal, <<"a">>, <<"1">>, <<"A">>, <<"\n">> }

PushOutputs == {Flatten(q) : q \in SeqsUpTo(Segments, MaxSegs)}

\* shell(): runs the program and returns the captured output, or throws when
\* the program fails
shell == {[ok |-> FALSE, out |-> <<>>]} \cup {[ok |-> TRUE, out |-> o] : o \in PushOutputs}

ShellError == <<"command failed">>

\* The props and construct paths an Image is created with
Props ==
    [ dir         : {<<"foobar">>},
      hasRegistry : {TRUE},
      registry    : {<<"localhost:5000">>, <<>>},
      hasCmdOpts  : {TRUE},
      cmdOpts     : {<<>>, << <<"--target">>, <<"production">>, <<"--tag">>, <<"image1">> >>},
      path        : {<<"test", "my-image">>, <<"app", "chart", "img">>} ]
    \cup
    [ dir         : {<<"foobar">>},
      hasRegistry : {FALSE},
      registry    : {<<>>},
      hasCmdOpts  : {FALSE},
      cmdOpts     : {<<>>},
      path        : {<<"test", "my-image">>, <<"app", "chart", "img">>} ]

\* props.registry ?? 'docker.io/library'
registryOf(p) == IF p.hasRegistry THEN p.registry ELSE <<"docker.io/library">>

\* `${registry}/${Names.toDnsLabel(Node.of(this).path)}`
tagOf(p) == registryOf(p) \o <<"/">> \o toDnsLabel(p.path)

\* props.cmdOpts || []
cmdOptsOf(p) == IF p.hasCmdOpts THEN p.cmdOpts ELSE <<>>

\* An argument vector naming the tag before the caller's options.
buildArgvTagFirst(p) ==
    << <<"docker">>, <<"build">>, <<"--tag">>, tagOf(p) >> \o cmdOptsOf(p) \o << p.dir >>

\* 'docker', 'build', ...[...cmdOpts, ...['--tag', tag, props.dir]]
buildArgv(p) ==
    << <<"docker">>, <<"build">> >> \o cmdOptsOf(p) \o << <<"--tag">>, tagOf(p), p.dir >>

\* 'docker', 'push', tag
pushArgv(p) == << <<"docker">>, <<"push">>, tagOf(p) >>

InitImage ==
    /\ props \in Props
    /\ ipc = "start"
    /\ shellCalls = <<>>
    /\ results = <<>>
    /\ push = <<>>
    /\ url = <<>>
    /\ error = NoError
    /\ BuilderIdle
    /\ FilterIdle

\* A build step that goes on to the push whether or not the build failed.
Image_buildUnchecked ==
    /\ ipc = "start"
    /\ \E r \in shell :
           /\ shellCalls' = Append(shellCalls, buildArgv(props))
           /\ results' = Append(results, r.ok)
           /\ ipc' = "built"
           /\ UNCHANGED error
    /\ UNCHANGED <<props, push, url, builderVars, filterVars>>

\* The constructor up to the return of shell('docker', 'build', ...)
Image_build ==
    /\ ipc = "start"
    /\ \E r \in shell :
           /\ shellCalls' = Append(shellCalls, buildArgv(props))
           /\ results' = Append(results, r.ok)
           /\ IF r.ok
              THEN ipc' = "built" /\ UNCHANGED error
              ELSE ipc' = "failed" /\ error' = [at |-> "build", msg |-> ShellError]
    /\ UNCHANGED <<props, push, url, builderVars, filterVars>>

\* const push = shell('docker', 'push', tag)
Image_push ==
    /\ ipc = "built"
    /\ \E r \in shell :
           /\ shellCalls' = Append(shellCalls, pushArgv(props))
           /\ results' = Append(results, r.ok)
           /\ IF r.ok
              THEN ipc' = "pushed" /\ push' = r.out /\ UNCHANGED error
              ELSE ipc' = "failed" /\ error' = [at |-> "push", msg |-> ShellError] /\ UNCHANGED push
    /\ UNCHANGED <<props, url, builderVars, filterVars>>

\* PARSE_DIGEST.exec(push), the throw, and the assignment of this.url
Image_parse ==
    /\ ipc = "pushed"
    /\ LET result == exec(push)
       IN  IF result = NoMatch
           THEN /\ ipc' = "failed"
                /\ error' = [at |-> "digest",
                             msg |-> <<"unable to read image digest after push: ">> \o push]
                /\ UNCHANGED url
           ELSE /\ url' = tagOf(props) \o <<"@">> \o result.group1
                /\ ipc' = "done"
                /\ UNCHANGED error
    /\ UNCHANGED <<props, shellCalls, results, push, builderVars, filterVars>>

NextImage == Image_build \/ Image_push \/ Image_parse

SpecImage == InitImage /\ [][NextImage]_vars

(***************************************************************************)
(* Properties of the Image constructor                                     *)
(***************************************************************************)
LowerHex == {"0", "1", "2", "3", "4", "5", "6", "7", "8", "9", "a", "b", "c", "d", "e", "f"}

\* The text "digest: sha256:" followed by the hex digits s[i+15..e] stands at position i of s
Occurs(s, i, e) ==
    /\ e >= i + 15 /\ e <= Len(s)
    /\ SubSeq(s, i, i + 14)
           = <<"d", "i", "g", "e", "s", "t", ":", " ", "s", "h", "a", "2", "5", "6", ":">>
    /\ \A x \in (i + 15)..e : s[x] \in LowerHex

HasDigest(s) == \E i, e \in 1..Len(s) : Occurs(s, i, e)

\* The expected tag: the registry (or its default), "/", the DNS label of the path
ExpectedTag ==
    (IF props.hasRegistry THEN props.registry ELSE <<"docker.io/library">>)
        \o <<"/">> \o toDnsLabel(props.path)

\* C1: a successful construction has made exactly two invocations, in this
\* order: docker build with the tokens of cmdOpts in their order followed by
\* --tag, the tag and dir; then docker push with the same tag.
C1_BuildThenPush ==
    ipc = "done" =>
        /\ Len(shellCalls) = 2
        /\ shellCalls[1] = << <<"docker">>, <<"build">> >>
                               \o (IF props.hasCmdOpts THEN props.cmdOpts ELSE <<>>)
                               \o << <<"--tag">>, ExpectedTag, props.dir >>
        /\ shellCalls[2] = << <<"docker">>, <<"push">>, ExpectedTag >>

\* A construction with a registry and four option tokens has succeeded.
C1_Witness ==
    /\ ipc = "done"
    /\ props.hasRegistry /\ props.registry # <<>>
    /\ Len(props.cmdOpts) = 4
    /\ Len(shellCalls[1]) = 9

\* C2, on the states: when the captured push output holds a digest, the
\* construction succeeds and url is the tag given to build and push, "@",
\* and "sha256:" with the hex digits of the first occurrence; url is unset
\* in every state but the final one.
C2_Url ==
    /\ url # <<>> => ipc = "done"
    /\ (results = <<TRUE, TRUE>> /\ ipc # "pushed" /\ HasDigest(push)) =>
           /\ ipc = "done"
           /\ \E i, e \in 1..Len(push) :
                  /\ Occurs(push, i, e)
                  /\ \A i2 \in 1..(i - 1) : \A e2 \in 1..Len(push) : ~Occurs(push, i2, e2)
                  /\ e = Len(push) \/ push[e + 1] \notin LowerHex
                  /\ url = shellCalls[2][3] \o <<"@", "s", "h", "a", "2", "5", "6", ":">>
                               \o SubSeq(push, i + 15, e)
           /\ shellCalls[2][3] = shellCalls[1][Len(shellCalls[1]) - 1]

\* C2: for a push output holding 'digest: sha256:<hex>', url is
\* '<tag>@sha256:<hex>' of the first occurrence; url is assigned once and not
\* changed afterwards.
C2_UrlIsTagAtFirstDigest ==
    []C2_Url /\ [][url # <<>> => url' = url]_vars

\* The push output holds two digests and the construction has succeeded.
C2_Witness ==
    /\ ipc = "done"
    /\ \E i, j, e, f \in 1..Len(push) :
           /\ i < j /\ Occurs(push, i, e) /\ Occurs(push, j, f)
           /\ SubSeq(push, i + 15, e) # SubSeq(push, j + 15, f)
           /\ j > e

\* t occurs in s as a contiguous part
Contains(s, t) == \E i \in 0..(Len(s) - Len(t)) : SubSeq(s, i + 1, i + Len(t)) = t

\* C3: for a push output without 'digest: sha256:' followed by lower-case hex
\* digits the construction fails after both invocations, with an error whose
\* message holds the captured output, and url stays unset.
C3_NoDigestFails ==
    (results = <<TRUE, TRUE>> /\ ipc # "pushed" /\ ~HasDigest(push)) =>
        /\ ipc = "failed"
        /\ error.at = "digest"
        /\ Contains(error.msg, push)
        /\ url = <<>>
        /\ Len(shellCalls) = 2

\* The construction failed on an output whose digest is written in upper case.
C3_Witness ==
    /\ ipc = "failed"
    /\ error.at = "digest"
    /\ Contains(push, <<"s", "h", "a", "2", "5", "6", ":", "A">>)

\* C4: a failed invocation is the last one (no retry, no push after a failed
\* build), leaves url unset and fails the construction; a final state has
\* either a url '<tag>@sha256:<hex>' or a failed construction without url.
C4_FailureAborts ==
    /\ Len(shellCalls) <= 2 /\ Len(results) = Len(shellCalls)
    /\ \A i \in 1..Len(shellCalls) : shellCalls[i][2] = <<IF i = 1 THEN "build" ELSE "push">>
    /\ \A i \in 1..Len(results) :
           ~results[i] => Len(shellCalls) = i /\ ipc = "failed" /\ url = <<>>
    /\ ipc \in {"start", "built", "pushed", "done", "failed"}
    /\ ipc = "failed" => url = <<>>
    /\ ipc = "done" =>
           \E n \in 1..Len(url) :
               /\ SubSeq(url, 1, n - 1) = ExpectedTag
               /\ SubSeq(url, n, n + 7) = <<"@", "s", "h", "a", "2", "5", "6", ":">>
               /\ n + 7 < Len(url)
               /\ \A x \in (n + 8)..Len(url) : url[x] \in LowerHex

\* The build invocation failed.
C4_Witness ==
    /\ ipc = "failed"
    /\ results = <<FALSE>>
    /\ Len(shellCalls) = 1
====
